---- MODULE Spec2Model ----
(***************************************************************************)
(* Chat playground: the React client (App.tsx, handleSend / clearChat) and *)
(* the Go proxy (enableCORS, handleCompletion) that forwards a completion  *)
(* request to the Ollama inference engine.                                 *)
(*                                                                         *)
(* Text is a sequence of one-character strings, so that trim, split,       *)
(* bytes.Fields and string concatenation are computed, not assumed.        *)
(***************************************************************************)
EXTENDS Integers, Sequences, FiniteSets, TLC

(***************************************************************************)
(* Text helpers                                                            *)
(***************************************************************************)

\* White space as String.prototype.trim and Go's bytes.Fields see it
\* (space, tab, line feed, carriage return).
WhiteSpace == {" ", "\t", "\n", "\r"}

isSpace(c) == c \in WhiteSpace

RECURSIVE trimStart(_)
trimStart(s) ==
    IF s = <<>> THEN s
    ELSE IF isSpace(Head(s)) THEN trimStart(Tail(s)) ELSE s

RECURSIVE trimEnd(_)
trimEnd(s) ==
    IF s = <<>> THEN s
    ELSE IF isSpace(s[Len(s)]) THEN trimEnd(SubSeq(s, 1, Len(s) - 1)) ELSE s

\* input.trim()
trim(s) == trimEnd(trimStart(s))

\* JavaScript truthiness of a string: the empty string is falsy.
truthy(s) == s # <<>>

\* bytes.Fields: the number of maximal runs of non-space characters.
RECURSIVE fieldsFrom(_, _)
fieldsFrom(s, inField) ==
    IF s = <<>> THEN 0
    ELSE IF isSpace(Head(s)) THEN fieldsFrom(Tail(s), FALSE)
    ELSE (IF inField THEN 0 ELSE 1) + fieldsFrom(Tail(s), TRUE)

Fields(s) == fieldsFrom(s, FALSE)

\* text.split(" ").length: one more than the number of single spaces.
RECURSIVE splitSpaceLength(_)
splitSpaceLength(s) ==
    IF s = <<>> THEN 1
    ELSE (IF Head(s) = " " THEN 1 ELSE 0) + splitSpaceLength(Tail(s))

\* Decimal digits of a natural number (template-literal number formatting).
Digit(d) == <<"0", "1", "2", "3", "4", "5", "6", "7", "8", "9">>[d + 1]

RECURSIVE toDecimal(_)
toDecimal(n) ==
    IF n < 10 THEN <<Digit(n)>> ELSE toDecimal(n \div 10) \o <<Digit(n % 10)>>

(***************************************************************************)
(* JSON values on the wire.  A body is a JSON object (a record keyed by    *)
(* the JSON member names), plain text, or empty.                           *)
(***************************************************************************)

JsonBody(o) == [kind |-> "json", obj |-> o, text |-> <<>>]
TextBody(t) == [kind |-> "text", obj |-> [none |-> TRUE], text |-> t]
EmptyBody == [kind |-> "empty", obj |-> [none |-> TRUE], text |-> <<>>]

\* A member of a decoded object, or the zero value when it is absent.
Member(o, k, zero) == IF k \in DOMAIN o THEN o[k] ELSE zero

(***************************************************************************)
(* Proxy (Go): types and the two handlers                                  *)
(***************************************************************************)

\* json.NewDecoder(r.Body).Decode(&req): absent members keep Go's zero value.
DecodeCompletionRequest(body) ==
    IF body.kind # "json"
    THEN [err |-> TRUE, Model |-> "", Prompt |-> <<>>, MaxTokens |-> 0]
    ELSE [err |-> FALSE,
          Model |-> Member(body.obj, "model", ""),
          Prompt |-> Member(body.obj, "prompt", <<>>),
          MaxTokens |-> Member(body.obj, "max_tokens", 0)]

\* json.Unmarshal(body, &ollamaResp)
UnmarshalOllamaResponse(body) ==
    IF body.kind # "json"
    THEN [err |-> TRUE, Response |-> <<>>, EvalCount |-> 0]
    ELSE [err |-> FALSE,
          Response |-> Member(body.obj, "response", <<>>),
          EvalCount |-> Member(body.obj, "eval_count", 0)]

\* OllamaRequest{Model, Prompt, Stream: false} as marshalled by json.Marshal
OllamaRequest(req) ==
    JsonBody([model |-> req.Model, prompt |-> req.Prompt, stream |-> FALSE])

\* json.NewEncoder(w).Encode(CompletionResponse{...})
EncodeCompletionResponse(text, tokens) ==
    JsonBody([choices |-> <<[text |-> text]>>,
              usage |-> [completion_tokens |-> tokens]])

StatusOK == 200
StatusBadRequest == 400
StatusMethodNotAllowed == 405
StatusInternalServerError == 500
StatusBadGateway == 502

MethodNotAllowedText(build) ==
    IF build = 1
    THEN <<"M","e","t","h","o","d"," ","n","o","t"," ","a","l","l","o","w","e","d">>
    ELSE <<"N","o","t"," ","a"," ","P","O","S","T"," ","r","e","q","u","e","s","t",
           " ","-"," ","M","e","t","h","o","d"," ","n","o","t"," ",
           "a","l","l","o","w","e","d">>
InvalidRequestBodyText ==
    <<"I","n","v","a","l","i","d"," ","r","e","q","u","e","s","t"," ","b","o","d","y">>
OllamaErrorPrefix == <<"O","l","l","a","m","a"," ","e","r","r","o","r",":"," ">>
FailedToReadText ==
    <<"F","a","i","l","e","d"," ","t","o"," ","r","e","a","d"," ",
      "r","e","s","p","o","n","s","e">>
FailedToParseText ==
    <<"F","a","i","l","e","d"," ","t","o"," ","p","a","r","s","e"," ",
      "O","l","l","a","m","a"," ","r","e","s","p","o","n","s","e">>

\* No call to Ollama has been made.
NoUpstream == [kind |-> "none", err |-> <<>>, status |-> 0, body |-> EmptyBody]

\* A fresh http.ResponseWriter, with the bookkeeping of what the handlers did.
NewResponseWriter ==
    [status |-> 0, headers |-> <<>>, body |-> EmptyBody,
     handlerRan |-> FALSE, bodyDecoded |-> FALSE, upstreamCalls |-> 0,
     upstreamSent |-> EmptyBody, upstreamGot |-> NoUpstream, logLines |-> 0]

\* w.Header().Set(k, v): headers are a sequence of <<name, value>> pairs,
\* a later Set of the same name replacing the earlier one.
HeaderSet(w, k, v) ==
    [w EXCEPT !.headers =
        SelectSeq(w.headers, LAMBDA p : p[1] # k) \o <<(<<k, v>>)>>]

HeaderGet(w, k) ==
    LET hit == SelectSeq(w.headers, LAMBDA p : p[1] = k)
    IN  IF hit = <<>> THEN "" ELSE hit[1][2]

\* Variant of httpError: the message is written without WriteHeader(code),
\* so the reply goes out with the implicit 200.
httpError_ImplicitOK(w, msg, code) ==
    LET w1 == HeaderSet(w, "Content-Type", "text/plain; charset=utf-8")
    IN  [w1 EXCEPT !.status = StatusOK, !.body = TextBody(msg \o <<"\n">>)]

\* http.Error(w, msg, code): plain-text body msg followed by a newline.
httpError(w, msg, code) ==
    LET w1 == HeaderSet(w, "Content-Type", "text/plain; charset=utf-8")
        w2 == HeaderSet(w1, "X-Content-Type-Options", "nosniff")
    IN  [w2 EXCEPT !.status = code, !.body = TextBody(msg \o <<"\n">>)]

\* Variant of completionTokens: trusts the eval_count Ollama reports.
completionTokens_EvalCount(ollamaResp) ==
    IF ollamaResp.EvalCount > 0 THEN ollamaResp.EvalCount
    ELSE Fields(ollamaResp.Response)

\* tokens := len(bytes.Fields([]byte(ollamaResp.Response)))
completionTokens(ollamaResp) == Fields(ollamaResp.Response)

\* Variant of forwardToOllama: an upstream reply with a non-2xx status is
\* passed on as a 502.
forwardToOllama_CheckStatus(w, req, up) ==
    LET called == [w EXCEPT !.upstreamCalls = @ + 1,
                            !.upstreamSent = OllamaRequest(req),
                            !.upstreamGot = up]
    IN  IF up.kind = "unreachable"
        THEN httpError(called, OllamaErrorPrefix \o up.err, StatusBadGateway)
        ELSE IF up.status < 200 \/ up.status > 299
        THEN httpError(called, OllamaErrorPrefix \o toDecimal(up.status),
                       StatusBadGateway)
        ELSE IF up.kind = "unreadable"
        THEN httpError(called, FailedToReadText, StatusInternalServerError)
        ELSE LET ollamaResp == UnmarshalOllamaResponse(up.body)
             IN  IF ollamaResp.err
                 THEN httpError(called, FailedToParseText, StatusInternalServerError)
                 ELSE LET tokens == completionTokens(ollamaResp)
                          logged == [called EXCEPT !.logLines = @ + 1]
                          typed == HeaderSet(logged, "Content-Type", "application/json")
                      IN  [typed EXCEPT
                              !.status = StatusOK,
                              !.body = EncodeCompletionResponse(ollamaResp.Response, tokens)]

\* The stages of handleCompletion after the request body has been decoded:
\* the upstream POST, reading its body, decoding it, and the reply.
forwardToOllama(w, req, up) ==
    LET called == [w EXCEPT !.upstreamCalls = @ + 1,
                            !.upstreamSent = OllamaRequest(req),
                            !.upstreamGot = up]
    IN  IF up.kind = "unreachable"
        THEN httpError(called, OllamaErrorPrefix \o up.err, StatusBadGateway)
        ELSE IF up.kind = "unreadable"
        THEN httpError(called, FailedToReadText, StatusInternalServerError)
        ELSE LET ollamaResp == UnmarshalOllamaResponse(up.body)
             IN  IF ollamaResp.err
                 THEN httpError(called, FailedToParseText, StatusInternalServerError)
                 ELSE LET tokens == completionTokens(ollamaResp)
                          logged == [called EXCEPT !.logLines = @ + 1]
                          typed == HeaderSet(logged, "Content-Type", "application/json")
                      IN  [typed EXCEPT
                              !.status = StatusOK,
                              !.body = EncodeCompletionResponse(ollamaResp.Response, tokens)]

\* Variant of handleCompletion: the body is decoded before the method check.
handleCompletion_DecodeFirst(w, r, up, build) ==
    LET ran == [w EXCEPT !.handlerRan = TRUE, !.bodyDecoded = TRUE]
        req == DecodeCompletionRequest(r.body)
    IN  IF req.err
        THEN httpError(ran, InvalidRequestBodyText, StatusBadRequest)
        ELSE IF r.method # "POST"
        THEN httpError(ran, MethodNotAllowedText(build), StatusMethodNotAllowed)
        ELSE forwardToOllama(ran, req, up)

\* func handleCompletion(w, r); `up` is what the upstream call will yield and
\* `build` selects which of the two copies of main.go is running.
handleCompletion(w, r, up, build) ==
    LET ran == [w EXCEPT !.handlerRan = TRUE]
    IN  IF r.method # "POST"
        THEN httpError(ran, MethodNotAllowedText(build), StatusMethodNotAllowed)
        ELSE LET req == DecodeCompletionRequest(r.body)
                 dec == [ran EXCEPT !.bodyDecoded = TRUE]
             IN  IF req.err
                 THEN httpError(dec, InvalidRequestBodyText, StatusBadRequest)
                 ELSE forwardToOllama(dec, req, up)

\* Variant of enableCORS: the headers are set on the preflight reply only.
enableCORS_PreflightOnly(w, r, up, build) ==
    IF r.method = "OPTIONS"
    THEN LET w1 == HeaderSet(w, "Access-Control-Allow-Origin", "*")
             w2 == HeaderSet(w1, "Access-Control-Allow-Methods", "POST, OPTIONS")
             w3 == HeaderSet(w2, "Access-Control-Allow-Headers", "Content-Type")
         IN  [w3 EXCEPT !.status = StatusOK]
    ELSE handleCompletion(w, r, up, build)

\* func enableCORS(next): the handler registered on /v1/completions.
enableCORS(w, r, up, build) ==
    LET w1 == HeaderSet(w, "Access-Control-Allow-Origin", "*")
        w2 == HeaderSet(w1, "Access-Control-Allow-Methods", "POST, OPTIONS")
        w3 == HeaderSet(w2, "Access-Control-Allow-Headers", "Content-Type")
    IN  IF r.method = "OPTIONS"
        THEN [w3 EXCEPT !.status = StatusOK]
        ELSE handleCompletion(w3, r, up, build)

(***************************************************************************)
(* Inputs                                                                  *)
(***************************************************************************)

Hello == <<"h","e","l","l","o">>
HiThere == <<"h","i"," ","t","h","e","r","e">>

\* What the user may type into the textarea.
Prompts == { <<>>, <<" ">>, <<" ", "\n">>, Hello, <<" ", "a", " ">> }

\* Texts the inference engine may generate.
UpstreamTexts == { <<>>, HiThere, <<"a", " ", " ", "b", "\n", "c">>, <<" ", "\t">> }

ConnectionRefused ==
    <<"c","o","n","n","e","c","t","i","o","n"," ","r","e","f","u","s","e","d">>
ModelNotFound == <<"n","o","t"," ","f","o","u","n","d">>

\* Outcomes of http.Post to Ollama followed by io.ReadAll.
UpstreamOutcomes ==
       {[kind |-> "unreachable", err |-> ConnectionRefused, status |-> 0,
         body |-> EmptyBody]}
  \cup {[kind |-> "unreadable", err |-> <<>>, status |-> 200, body |-> EmptyBody]}
  \cup {[kind |-> "body", err |-> <<>>, status |-> 200,
         body |-> TextBody(<<"<","h","t","m","l",">">>)]}
  \cup {[kind |-> "body", err |-> <<>>, status |-> 200,
         body |-> JsonBody([response |-> t, done |-> TRUE])] : t \in UpstreamTexts}
  \cup {[kind |-> "body", err |-> <<>>, status |-> 200,
         body |-> JsonBody([response |-> t, done |-> TRUE, eval_count |-> 7])] :
            t \in UpstreamTexts}
  \cup {[kind |-> "body", err |-> <<>>, status |-> 404,
         body |-> JsonBody([error |-> ModelNotFound])]}

Models == {"facebook/opt-1.3b", "llama3.2"}

\* Requests that may arrive on /v1/completions from any caller.
ValidRequestBodies ==
    {JsonBody([model |-> m, prompt |-> p, max_tokens |-> 150]) :
        m \in Models, p \in Prompts}
  \cup {JsonBody([prompt |-> Hello])}

RequestBodies == ValidRequestBodies \cup {TextBody(<<"{">>), EmptyBody}

Requests == [method : {"POST", "OPTIONS", "GET"}, body : RequestBodies]

Builds == {1, 2}

(***************************************************************************)
(* Client (React): App.tsx                                                 *)
(***************************************************************************)

ErrorApiReturned ==
    <<"E","r","r","o","r",":"," ","A","P","I"," ",
      "r","e","t","u","r","n","e","d"," ">>
ErrorCouldNotConnect ==
    <<"E","r","r","o","r",":"," ","C","o","u","l","d"," ","n","o","t"," ",
      "c","o","n","n","e","c","t"," ","t","o"," ","b","a","c","k","e","n","d">>

\* useState(150) for maxTokens.
maxTokens == 150

\* Elapsed wall-clock seconds a round trip may measure.
Latencies == {0, 2}

\* latency > 0 ? tokens / latency : 0, kept as an exact fraction.
tokensPerSecond(tokens, latency) ==
    IF latency > 0 THEN [num |-> tokens, den |-> latency]
    ELSE [num |-> 0, den |-> 1]

\* Variant of responseOk: the status is never looked at.
responseOk_Unchecked(w) == w.status >= 0

\* response.ok
responseOk(w) == w.status >= 200 /\ w.status <= 299

\* const userMessage: Message = { role: "user", content: input }
userMessage(text) == [role |-> "user", content |-> text]

\* data.choices[0].text and the metrics computed from it (the ok branch).
successMessage(data, latency) ==
    LET text == data.choices[1].text
        tokens ==
            IF "usage" \in DOMAIN data /\ "completion_tokens" \in DOMAIN data.usage
            THEN data.usage.completion_tokens
            ELSE splitSpaceLength(text)
    IN  [role |-> "assistant", content |-> text,
         metrics |-> [latency |-> latency, tokens |-> tokens,
                      tokensPerSecond |-> tokensPerSecond(tokens, latency)]]

\* Variant of statusErrorMessage: the error Message is given a metrics block.
statusErrorMessage_WithMetrics(status) ==
    [role |-> "assistant", content |-> ErrorApiReturned \o toDecimal(status),
     metrics |-> [latency |-> 0, tokens |-> 0,
                  tokensPerSecond |-> tokensPerSecond(0, 0)]]

\* { role: "assistant", content: `Error: API returned ${response.status}` }
statusErrorMessage(status) ==
    [role |-> "assistant", content |-> ErrorApiReturned \o toDecimal(status)]

\* The catch clause: { role: "assistant", content: `Error: Could not connect
\* to backend` }
connectErrorMessage ==
    [role |-> "assistant", content |-> ErrorCouldNotConnect]

\* Variant of assistantMessage: a reply without choices is reported with the
\* status text instead of falling into the catch clause.
assistantMessage_GuardedChoices(w, latency) ==
    IF responseOk(w)
    THEN IF w.body.kind # "json"
         THEN connectErrorMessage
         ELSE IF "choices" \notin DOMAIN w.body.obj \/ w.body.obj.choices = <<>>
         THEN statusErrorMessage(w.status)
         ELSE successMessage(w.body.obj, latency)
    ELSE statusErrorMessage(w.status)

\* The body of the try block after the fetch has resolved with response w,
\* together with its catch clause: the Message that setMessages appends.
\* response.json() rejects on a body that is not JSON, and choices[0].text
\* throws a TypeError when choices is missing or empty; both are caught.
assistantMessage(w, latency) ==
    IF responseOk(w)
    THEN IF w.body.kind # "json"
              \/ "choices" \notin DOMAIN w.body.obj
              \/ w.body.obj.choices = <<>>
         THEN connectErrorMessage
         ELSE successMessage(w.body.obj, latency)
    ELSE statusErrorMessage(w.status)

\* messages.filter((m) => m.metrics).map((m) => m.metrics!)
sessionMetrics(log) ==
    LET withMetrics == SelectSeq(log, LAMBDA m : "metrics" \in DOMAIN m)
    IN  [i \in 1..Len(withMetrics) |-> withMetrics[i].metrics]

\* A CompletionResponse body as the wire contract describes it: a JSON
\* object whose choices member is a non-empty sequence of {text}.
WellFormedCompletion(body) ==
    /\ body.kind = "json"
    /\ "choices" \in DOMAIN body.obj
    /\ body.obj.choices # <<>>
    /\ \A k \in 1..Len(body.obj.choices) : "text" \in DOMAIN body.obj.choices[k]

\* What is recorded about the exchange behind each Message of the log: the
\* user's own Message, a fetch that rejected, or the reply that arrived.
\* For a reply: its status, whether its body has the ApiResponse shape, how
\* many choices it holds, and the status Ollama gave the proxy (0: none).
userOrigin ==
    [kind |-> "user", status |-> 0, wellFormed |-> FALSE, choices |-> 0,
     upstream |-> 0]
rejectedOrigin ==
    [kind |-> "rejected", status |-> 0, wellFormed |-> FALSE, choices |-> 0,
     upstream |-> 0]
replyOrigin(w) ==
    [kind |-> "reply", status |-> w.status,
     wellFormed |-> WellFormedCompletion(w.body),
     choices |-> IF w.body.kind = "json" /\ "choices" \in DOMAIN w.body.obj
                 THEN Len(w.body.obj.choices) ELSE 0,
     upstream |-> w.upstreamGot.status]

\* Longest session log explored.
MaxLog == 4

VARIABLES
    messages,      \* useState<Message[]>([])
    input,         \* useState("")
    model,         \* useState("facebook/opt-1.3b")
    isLoading,     \* useState(false), the latest value set
    shownLoading,  \* isLoading as captured by the handlers of the last render
    net,           \* fetches awaiting their outcome: <<[stage, req, w]>>
    origin,        \* for each Message of the log, how its exchange ended
    sendCalled,    \* TRUE iff the last step was a call of handleSend
    served         \* the last request the proxy served to any caller

clientVars == <<messages, input, model, isLoading, shownLoading, net, origin,
                sendCalled>>
vars == <<messages, input, model, isLoading, shownLoading, net, origin,
          sendCalled, served>>

Init ==
    /\ messages = <<>>
    /\ input = <<>>
    /\ model = "facebook/opt-1.3b"
    /\ isLoading = FALSE
    /\ shownLoading = FALSE
    /\ net = <<>>
    /\ origin = <<>>
    /\ sendCalled = FALSE
    /\ served = [n |-> 0]

\* Variant of sendIgnored: the guard forgets isLoading.
sendIgnored_NoBusyCheck == ~truthy(trim(input))

\* Variant of sendIgnored: the guard tests input without trimming it.
sendIgnored_NoTrim == ~truthy(input) \/ shownLoading

\* The guard of handleSend: if (!input.trim() || isLoading) return;
\* the handler sees the input and isLoading of the render it belongs to.
sendIgnored == ~truthy(trim(input)) \/ shownLoading

\* fetch(`${BACKEND_URL}/v1/completions`, { method: "POST", body: ... })
fetchRequest ==
    [method |-> "POST",
     body |-> JsonBody([model |-> model, prompt |-> input,
                        max_tokens |-> maxTokens])]

\* const handleSend = async () => { ... } up to the await of fetch.  The
\* state updates of a click or key event are rendered before the next event.
handleSend ==
    /\ Len(messages) + 2 <= MaxLog
    /\ sendCalled' = TRUE
    /\ IF sendIgnored
       THEN UNCHANGED <<messages, input, model, isLoading, shownLoading, net,
                        origin, served>>
       ELSE /\ messages' = Append(messages, userMessage(input))
            /\ origin' = Append(origin, userOrigin)
            /\ input' = <<>>
            /\ isLoading' = TRUE
            /\ shownLoading' = TRUE
            /\ net' = Append(net, [stage |-> "sent", req |-> fetchRequest,
                                   w |-> NewResponseWriter])
            /\ UNCHANGED <<model, served>>

\* <button onClick={handleSend} disabled={!input.trim() || isLoading}>
ClickSend ==
    /\ ~sendIgnored
    /\ handleSend

\* handleKeyDown: Enter without Shift calls handleSend.
KeyDownEnter == handleSend

\* <textarea onChange={(e) => setInput(e.target.value)}>
TypeInput(text) ==
    /\ input' = text
    /\ sendCalled' = FALSE
    /\ UNCHANGED <<messages, model, isLoading, shownLoading, net, origin, served>>

\* <Select value={model} onValueChange={setModel}>
SelectModel(m) ==
    /\ model' = m
    /\ sendCalled' = FALSE
    /\ UNCHANGED <<messages, input, isLoading, shownLoading, net, origin, served>>

\* const clearChat = () => { setMessages([]) }
clearChat ==
    /\ messages' = <<>>
    /\ origin' = <<>>
    /\ sendCalled' = FALSE
    /\ UNCHANGED <<input, model, isLoading, shownLoading, net, served>>

RemoveAt(s, i) == SubSeq(s, 1, i - 1) \o SubSeq(s, i + 1, Len(s))

\* The proxy serves the client's request i: enableCORS(handleCompletion).
ProxyHandle(i, up, build) ==
    /\ net[i].stage = "sent"
    /\ net' = [net EXCEPT ![i] =
                  [@ EXCEPT !.stage = "responded",
                            !.w = enableCORS(NewResponseWriter, net[i].req, up, build)]]
    /\ sendCalled' = FALSE
    /\ UNCHANGED <<messages, input, model, isLoading, shownLoading, origin, served>>

\* Variant of settle: setIsLoading(false) sits at the end of the try block
\* instead of a finally clause, so the catch path leaves the flag set.
settle_NoFinally(i, message, caught, how) ==
    /\ messages' = Append(messages, message)
    /\ origin' = Append(origin, how)
    /\ isLoading' = (IF caught THEN isLoading ELSE FALSE)
    /\ net' = RemoveAt(net, i)
    /\ sendCalled' = FALSE
    /\ UNCHANGED <<input, model, shownLoading, served>>

\* The rest of handleSend once its fetch has settled: `caught` tells whether
\* the catch clause ran; setMessages((prev) => [...prev, message]) and, in
\* the finally clause, setIsLoading(false).  The re-render follows (Render).
settle(i, message, caught, how) ==
    /\ messages' = Append(messages, message)
    /\ origin' = Append(origin, how)
    /\ isLoading' = FALSE
    /\ net' = RemoveAt(net, i)
    /\ sendCalled' = FALSE
    /\ UNCHANGED <<input, model, shownLoading, served>>

\* fetch resolves with the proxy's response.
FetchResolve(i, latency) ==
    /\ net[i].stage = "responded"
    /\ LET message == assistantMessage(net[i].w, latency)
       IN  settle(i, message, message = connectErrorMessage, replyOrigin(net[i].w))

\* fetch rejects: the proxy cannot be reached, or the connection is lost.
FetchReject(i) == settle(i, connectErrorMessage, TRUE, rejectedOrigin)

\* React renders the updates made outside an event handler.
Render ==
    /\ shownLoading # isLoading
    /\ shownLoading' = isLoading
    /\ sendCalled' = FALSE
    /\ UNCHANGED <<messages, input, model, isLoading, net, origin, served>>

Next ==
    \/ ClickSend
    \/ KeyDownEnter
    \/ \E text \in Prompts : TypeInput(text)
    \/ \E m \in Models : SelectModel(m)
    \/ clearChat
    \/ \E i \in 1..Len(net), up \in UpstreamOutcomes, build \in Builds :
          ProxyHandle(i, up, build)
    \/ \E i \in 1..Len(net), latency \in Latencies : FetchResolve(i, latency)
    \/ \E i \in 1..Len(net) : FetchReject(i)
    \/ Render

Spec == Init /\ [][Next]_vars

(***************************************************************************)
(* The proxy on its own, serving any caller                                *)
(***************************************************************************)

\* The proxy serves one request from any caller.
Serve(r, up, build) ==
    /\ served' = [n |-> 1, r |-> r, up |-> up, build |-> build,
                  w |-> enableCORS(NewResponseWriter, r, up, build)]
    /\ UNCHANGED clientVars

NextProxy == \E r \in Requests, up \in UpstreamOutcomes, build \in Builds :
                Serve(r, up, build)

SpecProxy == Init /\ [][NextProxy]_vars

\* The same behaviours, with React eventually rendering pending updates.
FairSpec == Spec /\ WF_vars(Render)

(***************************************************************************)
(* The client against whatever answers on BACKEND_URL                      *)
(***************************************************************************)

\* A reply with the given status and body, as fetch hands it to handleSend.
Reply(status, body) == [NewResponseWriter EXCEPT !.status = status, !.body = body]

ServiceUnavailable ==
    <<"S","e","r","v","i","c","e"," ","U","n","a","v","a","i","l","a","b","l","e">>

\* Replies of the ApiResponse shape and around it: with and without usage,
\* usage without completion_tokens, no choice at all, a body that is not
\* JSON, and a non-2xx status.
ServerReplies ==
       {Reply(200, JsonBody([choices |-> <<[text |-> t]>>])) : t \in UpstreamTexts}
  \cup {Reply(200, JsonBody([choices |-> <<[text |-> t]>>,
                             usage |-> [completion_tokens |-> 5]])) :
            t \in UpstreamTexts}
  \cup {Reply(200, JsonBody([choices |-> <<[text |-> HiThere]>>,
                             usage |-> [prompt_tokens |-> 1]]))}
  \cup {Reply(200, JsonBody([choices |-> <<>>])),
        Reply(200, JsonBody([choices |-> <<>>,
                             usage |-> [completion_tokens |-> 0]])),
        Reply(200, TextBody(<<"<","h","t","m","l",">">>)),
        Reply(503, TextBody(ServiceUnavailable))}

\* The server answers the client's request i.
ServerRespond(i, w) ==
    /\ net[i].stage = "sent"
    /\ net' = [net EXCEPT ![i] = [@ EXCEPT !.stage = "responded", !.w = w]]
    /\ sendCalled' = FALSE
    /\ UNCHANGED <<messages, input, model, isLoading, shownLoading, origin, served>>

NextAnyServer ==
    \/ ClickSend
    \/ KeyDownEnter
    \/ \E text \in Prompts : TypeInput(text)
    \/ \E m \in Models : SelectModel(m)
    \/ clearChat
    \/ \E i \in 1..Len(net), w \in ServerReplies : ServerRespond(i, w)
    \/ \E i \in 1..Len(net), latency \in Latencies : FetchResolve(i, latency)
    \/ \E i \in 1..Len(net) : FetchReject(i)
    \/ Render

SpecAnyServer == Init /\ [][NextAnyServer]_vars

(***************************************************************************)
(* Properties                                                              *)
(***************************************************************************)

AllWhiteSpace(text) == \A k \in 1..Len(text) : text[k] \in {" ", "\t", "\n", "\r"}

Is2xx(status) == status \in 200..299

\* C1: at most one fetch of the session is in flight at any time, and a
\* call of handleSend made while a fetch is in flight issues no fetch and
\* appends no Message.
C1_OneRequestInFlight ==
    [][ /\ Len(net') <= 1
        /\ (sendCalled' /\ net # <<>>) => (net' = net /\ messages' = messages)
      ]_vars

\* A send was triggered with a non-blank input while a fetch was in flight.
C1_Witness == sendCalled /\ Len(net) = 1 /\ ~AllWhiteSpace(input)

\* C2: every assistant Message of the log is immediately preceded by a user
\* Message.
C2_AssistantFollowsUser ==
    \A k \in 1..Len(messages) :
        messages[k].role = "assistant" =>
            k > 1 /\ messages[k - 1].role = "user"

C4_MetricsIffSuccess ==
    \A k \in 1..Len(messages) :
        ("metrics" \in DOMAIN messages[k])
            <=> /\ messages[k].role = "assistant"
                /\ origin[k].kind = "reply"
                /\ Is2xx(origin[k].status)
                /\ origin[k].wellFormed

\* The log holds a successful reply and a failed one.
C4_Witness ==
    /\ \E k \in 1..Len(messages) : "metrics" \in DOMAIN messages[k]
    /\ \E k \in 1..Len(messages) :
          messages[k].role = "assistant" /\ "metrics" \notin DOMAIN messages[k]

ValidPost == served.n = 1 /\ served.r.method = "POST"
                /\ served.r.body \in ValidRequestBodies

\* C5: a valid CompletionRequest POSTed gets either a 2xx whose body is a
\* well-formed CompletionResponse with exactly one choice, or a non-2xx
\* status with a non-empty error body.
C5_WellFormedOrError ==
    ValidPost =>
        \/ /\ Is2xx(served.w.status)
           /\ WellFormedCompletion(served.w.body)
           /\ Len(served.w.body.obj.choices) = 1
        \/ /\ ~Is2xx(served.w.status)
           /\ served.w.status >= 400
           /\ served.w.body.kind = "text"
           /\ served.w.body.text # <<>>

\* A valid POST whose upstream body did not decode.
C5_Witness ==
    /\ ValidPost
    /\ served.up.kind = "body" /\ served.up.body.kind # "json"
    /\ served.w.status = 500

\* C6: a fetch that settles clears the busy flag in the same step, the flag
\* is never set while no fetch is outstanding, and once the session is idle
\* the handlers come to see the flag cleared, so a non-blank send is
\* accepted again.
C6_BusyFlagCleared ==
    /\ [][Len(net') < Len(net) => ~isLoading']_vars
    /\ [](net = <<>> => ~isLoading)
    /\ [](ENABLED Render \/ net # <<>> \/ AllWhiteSpace(input) \/ ~sendIgnored)
    /\ (net = <<>>) ~> (~shownLoading \/ net # <<>>)

\* After a fetch that rejected, the next send was accepted.
C6_Witness ==
    /\ Len(messages) >= 3
    /\ origin[2].kind = "rejected"
    /\ origin[3].kind = "user"
    /\ isLoading

NumberOfWords(text) ==
    Cardinality({k \in 1..Len(text) :
        /\ text[k] \notin {" ", "\t", "\n", "\r"}
        /\ (k = 1 \/ text[k - 1] \in {" ", "\t", "\n", "\r"})})

DecodedUpstream == ValidPost /\ served.up.kind = "body"
                      /\ served.up.body.kind = "json"

\* C7: when the upstream body decodes, the reply has exactly one choice, whose
\* text is the upstream response member unchanged, and completion_tokens is
\* the number of whitespace-delimited words of that text, whatever eval_count
\* says ("hi there" gives 2).
C7_TextAndTokenCount ==
    DecodedUpstream =>
        LET sent == IF "response" \in DOMAIN served.up.body.obj
                    THEN served.up.body.obj.response ELSE <<>>
            reply == served.w.body.obj
        IN  /\ Len(reply.choices) = 1
            /\ reply.choices[1].text = sent
            /\ reply.usage.completion_tokens = NumberOfWords(sent)
            /\ sent = HiThere => reply.usage.completion_tokens = 2

\* Upstream answered "hi there" and reported an eval_count of 7.
C7_Witness ==
    /\ DecodedUpstream
    /\ "eval_count" \in DOMAIN served.up.body.obj
    /\ served.up.body.obj.response = HiThere
    /\ served.w.body.obj.usage.completion_tokens = 2

HasHeader(w, name, value) ==
    \E k \in 1..Len(w.headers) : w.headers[k] = <<name, value>>

\* C8: every reply on /v1/completions carries the three CORS headers, and an
\* OPTIONS request gets 200 with an empty body without handleCompletion
\* running (no body decoded, no upstream call).
C8_CorsOnEveryReply ==
    served.n = 1 =>
        /\ HasHeader(served.w, "Access-Control-Allow-Origin", "*")
        /\ HasHeader(served.w, "Access-Control-Allow-Methods", "POST, OPTIONS")
        /\ HasHeader(served.w, "Access-Control-Allow-Headers", "Content-Type")
        /\ served.r.method = "OPTIONS" =>
              /\ served.w.status = 200
              /\ served.w.body.kind = "empty"
              /\ ~served.w.handlerRan
              /\ ~served.w.bodyDecoded
              /\ served.w.upstreamCalls = 0

\* A request other than the preflight was refused, and the reply has CORS.
C8_Witness ==
    /\ served.n = 1
    /\ served.r.method = "GET"
    /\ served.w.status = 405
    /\ HasHeader(served.w, "Access-Control-Allow-Origin", "*")

\* C9: a call of handleSend while the input is empty or all white space
\* changes neither the log, the input, the busy flag nor the fetches in
\* flight.
C9_BlankSendIsNoOp ==
    [][(sendCalled' /\ AllWhiteSpace(input)) =>
          /\ messages' = messages
          /\ input' = input
          /\ isLoading' = isLoading
          /\ net' = net]_vars

\* handleSend was called on a white-space-only input while nothing else
\* would have blocked it.
C9_Witness ==
    /\ sendCalled
    /\ input = <<" ", "\n">>
    /\ net = <<>>
    /\ ~shownLoading

IsInfix(part, text) ==
    \E k \in 0..(Len(text) - Len(part)) : SubSeq(text, k + 1, k + Len(part)) = part

\* C10: the status is that of the first failing stage: 405 for a method other
\* than POST with nothing decoded and no upstream call, 400 for an undecodable
\* body with no upstream call, 502 carrying the error text when upstream is
\* unreachable, 500 when the upstream body cannot be read or decoded; and
\* upstream is called at most once.
C10_FirstFailingStage ==
    served.n = 1 =>
        LET r == served.r
            w == served.w
            up == served.up
        IN  /\ w.upstreamCalls <= 1
            /\ r.method \notin {"POST", "OPTIONS"} =>
                  w.status = 405 /\ ~w.bodyDecoded /\ w.upstreamCalls = 0
            /\ (r.method = "POST" /\ r.body.kind # "json") =>
                  w.status = 400 /\ w.upstreamCalls = 0
            /\ (r.method = "POST" /\ r.body.kind = "json") =>
                  /\ w.upstreamCalls = 1
                  /\ up.kind = "unreachable" =>
                        w.status = 502 /\ IsInfix(up.err, w.body.text)
                  /\ up.kind = "unreadable" => w.status = 500
                  /\ (up.kind = "body" /\ up.body.kind # "json") => w.status = 500

\* A GET with an undecodable body was refused for its method.
C10_Witness ==
    /\ served.n = 1
    /\ served.r.method = "GET"
    /\ served.r.body.kind = "text"
    /\ served.w.status = 405

\* The step settles fetch i with the reply it had received.
SettlesReply(i) ==
    /\ net[i].stage = "responded"
    /\ net' = RemoveAt(net, i)
    /\ Len(messages') = Len(messages) + 1

SuppliesCompletionTokens(data) ==
    "usage" \in DOMAIN data /\ "completion_tokens" \in DOMAIN data.usage

\* C11: the tokens of the metrics appended for a successful reply equal
\* usage.completion_tokens when the reply supplies it, and otherwise the
\* number of whitespace-delimited words of the text (0 for empty or
\* all-white-space text); they are never negative.
C11_TokensFromUsageOrWordCount ==
    [][\A i \in 1..Len(net) :
          (SettlesReply(i) /\ "metrics" \in DOMAIN messages'[Len(messages')]) =>
              LET data == net[i].w.body.obj
                  tokens == messages'[Len(messages')].metrics.tokens
              IN  /\ tokens >= 0
                  /\ tokens = IF SuppliesCompletionTokens(data)
                              THEN data.usage.completion_tokens
                              ELSE NumberOfWords(data.choices[1].text)
      ]_vars

\* A 2xx reply whose body is JSON with an empty choices array.
EmptyChoicesReply(w) ==
    /\ Is2xx(w.status)
    /\ w.body.kind = "json"
    /\ "choices" \in DOMAIN w.body.obj
    /\ w.body.obj.choices = <<>>

\* The step is the continuation of handleSend for the reply fetch i received.
ResolvesReply(i) ==
    /\ net[i].stage = "responded"
    /\ net' = RemoveAt(net, i)
    /\ Len(origin') = Len(origin) + 1
    /\ origin'[Len(origin')].kind = "reply"

C13_UpstreamStatusIgnored ==
    [][\A i \in 1..Len(net) :
          LET w == net[i].w
              up == w.upstreamGot
          IN  (net[i].stage = "responded" /\ up.kind = "body"
                  /\ up.body.kind = "json") =>
                  /\ w.status = 200
                  /\ w.body.kind = "json"
                  /\ Len(w.body.obj.choices) = 1
                  /\ "response" \notin DOMAIN up.body.obj =>
                        /\ w.body.obj.choices[1].text = <<>>
                        /\ w.body.obj.usage.completion_tokens = 0
                  /\ ResolvesReply(i) =>
                        /\ "metrics" \in DOMAIN messages'[Len(messages')]
                        /\ messages'[Len(messages')].content =
                              w.body.obj.choices[1].text
                        /\ Len(sessionMetrics(messages')) =
                              Len(sessionMetrics(messages)) + 1
      ]_vars

\* Ollama answered 404 with a JSON error body, and the log ends with an
\* empty assistant Message carrying metrics of 0 tokens.
C13_Witness ==
    /\ messages # <<>>
    /\ origin[Len(origin)].kind = "reply"
    /\ origin[Len(origin)].upstream = 404
    /\ origin[Len(origin)].status = 200
    /\ messages[Len(messages)].content = <<>>
    /\ "metrics" \in DOMAIN messages[Len(messages)]
    /\ messages[Len(messages)].metrics.tokens = 0
    /\ Len(sessionMetrics(messages)) >= 1

====
